---- MODULE Spec2Model ----
(***************************************************************************)
(* Bus arbitration and controller lifecycle of the Magnesium daughterboard *)
(* manager (mpm/lib/dboards/magnesium_manager.cpp).                        *)
(*                                                                         *)
(* The constructor creates one std::mutex (_spi_mutex), wraps it in a      *)
(* lockable (_spi_lock) and hands the same mutex to the AD937x chip        *)
(* controller (_mykonos_ctrl).  lockable, ad937x_ctrl and the callers are  *)
(* not part of the translation unit; their behaviour is taken from the     *)
(* design document (sections 4.1, 4.2, 5, 7).                              *)
(***************************************************************************)
EXTENDS Integers, Sequences, FiniteSets, TLC

\* ---- bounds -------------------------------------------------------------
NumManagers == 2
NumDevs == 2
NumThreads == 2
OpSteps == 2
MaxOps == 2

Managers == 1..NumManagers
Devs == 1..NumDevs
Threads == 1..NumThreads
\* identities of the std::mutex objects: every std::make_shared<std::mutex>()
\* call yields an object of its own
PrimIds == 1..(2 * NumManagers)

\* the object made by the make_shared call in the constructor of manager m
NewMutex(m) == m

\* an object made by some other make_shared call in that constructor
OtherMutex(m) == NumManagers + m

\* an empty std::shared_ptr / an unlocked std::mutex
Null == 0
Free == 0

\* the operation id of the identity probe done during construction
ProbeOp == 0

\* the thread that runs the constructor of manager m
CtorThread(m) == 0 - m

Holders == Threads \cup {CtorThread(m) : m \in Managers}

VARIABLES
    mstate,        \* lifecycle of each manager instance
    mdev,          \* mykonos_spidev argument of the constructor
    ctor_pc,       \* position inside the constructor / destructor
    ctor_err,      \* exception that left the constructor ("none" if none)
    probe_resp,    \* response of the chip identity probe
    spi_mutex,     \* member _spi_mutex: primitive id or Null
    spi_lock,      \* member _spi_lock: primitive the lockable wraps, or Null
    mykonos_ctrl,  \* member _mykonos_ctrl: primitive the controller holds, or Null
    ctrl_new,      \* controller under construction inside ad937x_ctrl::make
    owner,         \* owner[p]: holder that has std::mutex p locked, or Free
    prim_st,       \* prim_st[p]: std::mutex p is "none", "alive" or "destroyed"
    pc,            \* position of each caller thread
    tm,            \* manager whose object the thread operates on
    route,         \* "ctrl": controller operation, "lock"/"try": through _spi_lock
    tprim,         \* primitive of the object the thread operates on
    top,           \* id of the operation the thread runs
    steps,         \* bus transactions done in the current operation
    result,        \* what the last operation returned to its caller
    nops,          \* operations invoked so far (operation ids are 1, 2, ...)
    acq,           \* per manager: operations in lock acquisition order
    trace          \* per manager: bus transactions seen at the bus handle

vars == <<mstate, mdev, ctor_pc, ctor_err, probe_resp, spi_mutex, spi_lock,
          mykonos_ctrl, ctrl_new, owner, prim_st, pc, tm, route, tprim,
          top, steps, result, nops, acq, trace>>

mgrVars == <<mstate, mdev, ctor_pc, ctor_err, probe_resp, spi_mutex, spi_lock,
             mykonos_ctrl, ctrl_new>>

thrVars == <<pc, tm, route, tprim, top, steps, result, nops>>

Init ==
    /\ mstate = [m \in Managers |-> "Uninitialized"]
    /\ mdev = [m \in Managers |-> Null]
    /\ ctor_pc = [m \in Managers |-> "none"]
    /\ ctor_err = [m \in Managers |-> "none"]
    /\ probe_resp = [m \in Managers |-> "none"]
    /\ spi_mutex = [m \in Managers |-> Null]
    /\ spi_lock = [m \in Managers |-> Null]
    /\ mykonos_ctrl = [m \in Managers |-> Null]
    /\ ctrl_new = [m \in Managers |-> Null]
    /\ owner = [p \in PrimIds |-> Free]
    /\ prim_st = [p \in PrimIds |-> "none"]
    /\ pc = [t \in Threads |-> "idle"]
    /\ tm = [t \in Threads |-> Null]
    /\ route = [t \in Threads |-> "none"]
    /\ tprim = [t \in Threads |-> Null]
    /\ top = [t \in Threads |-> 0]
    /\ steps = [t \in Threads |-> 0]
    /\ result = [t \in Threads |-> "none"]
    /\ nops = 0
    /\ acq = [m \in Managers |-> <<>>]
    /\ trace = [m \in Managers |-> <<>>]

\* ---- shared ownership of the primitive ----------------------------------

\* The owners of std::mutex p: the manager's _spi_mutex, the lockable and
\* the controller that were made from it.  A lockable or controller lives
\* as long as the manager or a caller in an operation holds it.
PrimRefs(p) ==
    {<<"mgr", m>> : m \in {k \in Managers : spi_mutex[k] = p}}
      \cup {<<"lock", m>> : m \in {k \in Managers :
                \/ spi_lock[k] = p
                \/ \E t \in Threads :
                      tm[t] = k /\ route[t] \in {"lock", "try"} /\ tprim[t] = p}}
      \cup {<<"ctrl", m>> : m \in {k \in Managers :
                \/ mykonos_ctrl[k] = p
                \/ ctrl_new[k] = p
                \/ \E t \in Threads :
                      tm[t] = k /\ route[t] = "ctrl" /\ tprim[t] = p}}

\* a std::mutex is destroyed when its last std::shared_ptr owner is gone
Reap ==
    prim_st' = [p \in PrimIds |->
                   IF prim_st[p] = "alive" /\ PrimRefs(p)' = {}
                     THEN "destroyed" ELSE prim_st[p]]

\* ---- magnesium_manager::magnesium_manager ------------------------------

\* a constructor that could be run again on an instance that failed or was
\* destroyed
Construct_Reenter(m, d) ==
    /\ mstate[m] \in {"Uninitialized", "Failed", "Destroyed"}
    /\ \A k \in Managers : k < m => mstate[k] # "Uninitialized"
    /\ mstate' = [mstate EXCEPT ![m] = "Initializing"]
    /\ mdev' = [mdev EXCEPT ![m] = d]
    /\ ctor_pc' = [ctor_pc EXCEPT ![m] = "spi_mutex"]
    /\ UNCHANGED <<ctor_err, probe_resp, spi_mutex, spi_lock, mykonos_ctrl,
                   ctrl_new, owner, acq, trace>>
    /\ UNCHANGED thrVars
    /\ UNCHANGED prim_st

\* The constructor is entered with the device path of the SPI bus.  Instances
\* are numbered in the order in which they are constructed.
Construct(m, d) ==
    /\ mstate[m] = "Uninitialized"
    /\ \A k \in Managers : k < m => mstate[k] # "Uninitialized"
    /\ mstate' = [mstate EXCEPT ![m] = "Initializing"]
    /\ mdev' = [mdev EXCEPT ![m] = d]
    /\ ctor_pc' = [ctor_pc EXCEPT ![m] = "spi_mutex"]
    /\ UNCHANGED <<ctor_err, probe_resp, spi_mutex, spi_lock, mykonos_ctrl,
                   ctrl_new, owner, acq, trace>>
    /\ UNCHANGED thrVars
    /\ UNCHANGED prim_st

\* a single std::mutex shared by all managers instead of a fresh one each
InitSpiMutex_Static(m) ==
    /\ mstate[m] = "Initializing"
    /\ ctor_pc[m] = "spi_mutex"
    /\ spi_mutex' = [spi_mutex EXCEPT ![m] = NewMutex(1)]
    /\ ctor_pc' = [ctor_pc EXCEPT ![m] = "spi_lock"]
    /\ UNCHANGED <<mstate, mdev, ctor_err, probe_resp, spi_lock, mykonos_ctrl,
                   ctrl_new, owner, acq, trace>>
    /\ UNCHANGED thrVars
    /\ prim_st' = [prim_st EXCEPT ![NewMutex(1)] = "alive"]

\* a constructor whose _spi_mutex is still empty when the members after it
\* are initialised
InitSpiMutex_Deferred(m) ==
    /\ mstate[m] = "Initializing"
    /\ ctor_pc[m] = "spi_mutex"
    /\ ctor_pc' = [ctor_pc EXCEPT ![m] = "spi_lock"]
    /\ UNCHANGED <<mstate, mdev, ctor_err, probe_resp, spi_mutex, spi_lock,
                   mykonos_ctrl, ctrl_new, owner, acq, trace>>
    /\ UNCHANGED thrVars
    /\ UNCHANGED prim_st

\* _spi_mutex(std::make_shared<std::mutex>())
InitSpiMutex(m) ==
    /\ mstate[m] = "Initializing"
    /\ ctor_pc[m] = "spi_mutex"
    /\ spi_mutex' = [spi_mutex EXCEPT ![m] = NewMutex(m)]
    /\ owner' = [owner EXCEPT ![NewMutex(m)] = Free]
    /\ ctor_pc' = [ctor_pc EXCEPT ![m] = "spi_lock"]
    /\ UNCHANGED <<mstate, mdev, ctor_err, probe_resp, spi_lock, mykonos_ctrl,
                   ctrl_new, acq, trace>>
    /\ UNCHANGED thrVars
    /\ prim_st' = [prim_st EXCEPT ![NewMutex(m)] = "alive"]

\* a lockable built on a std::mutex of its own instead of _spi_mutex
InitSpiLock_OwnMutex(m) ==
    /\ mstate[m] = "Initializing"
    /\ ctor_pc[m] = "spi_lock"
    /\ spi_lock' = [spi_lock EXCEPT ![m] = OtherMutex(m)]
    /\ owner' = [owner EXCEPT ![OtherMutex(m)] = Free]
    /\ ctor_pc' = [ctor_pc EXCEPT ![m] = "iface"]
    /\ UNCHANGED <<mstate, mdev, ctor_err, probe_resp, spi_mutex, mykonos_ctrl,
                   ctrl_new, acq, trace>>
    /\ UNCHANGED thrVars
    /\ prim_st' = [prim_st EXCEPT ![OtherMutex(m)] = "alive"]

\* _spi_lock(mpm::types::lockable::make(_spi_mutex))
InitSpiLock(m) ==
    /\ mstate[m] = "Initializing"
    /\ ctor_pc[m] = "spi_lock"
    /\ spi_lock' = [spi_lock EXCEPT ![m] = spi_mutex[m]]
    /\ ctor_pc' = [ctor_pc EXCEPT ![m] = "iface"]
    /\ UNCHANGED <<mstate, mdev, ctor_err, probe_resp, spi_mutex, mykonos_ctrl,
                   ctrl_new, owner, acq, trace>>
    /\ UNCHANGED thrVars
    /\ UNCHANGED prim_st

\* An exception leaves the constructor: the members built so far (_spi_lock,
\* _spi_mutex) and the controller under construction are destroyed and no
\* magnesium_manager object comes into existence.
CtorThrow(m, err) ==
    /\ mstate' = [mstate EXCEPT ![m] = "Failed"]
    /\ ctor_err' = [ctor_err EXCEPT ![m] = err]
    /\ ctor_pc' = [ctor_pc EXCEPT ![m] = "none"]
    /\ ctrl_new' = [ctrl_new EXCEPT ![m] = Null]
    /\ mykonos_ctrl' = [mykonos_ctrl EXCEPT ![m] = Null]
    /\ spi_lock' = [spi_lock EXCEPT ![m] = Null]
    /\ spi_mutex' = [spi_mutex EXCEPT ![m] = Null]

\* make_ad937x_iface(mykonos_spidev): opens the bus handle, or throws
MakeIface(m, ok) ==
    /\ mstate[m] = "Initializing"
    /\ ctor_pc[m] = "iface"
    /\ IF ok
         THEN /\ ctor_pc' = [ctor_pc EXCEPT ![m] = "ctrl_make"]
              /\ UNCHANGED <<mstate, ctor_err, spi_mutex, spi_lock,
                             mykonos_ctrl, ctrl_new>>
         ELSE CtorThrow(m, "no_bus_handle")
    /\ UNCHANGED <<mdev, probe_resp, owner, acq, trace>>
    /\ UNCHANGED thrVars
    /\ Reap

\* a controller handed a std::mutex of its own instead of _spi_mutex
CtrlMake_OwnMutex(m) ==
    /\ mstate[m] = "Initializing"
    /\ ctor_pc[m] = "ctrl_make"
    /\ ctrl_new' = [ctrl_new EXCEPT ![m] = OtherMutex(m)]
    /\ owner' = [owner EXCEPT ![OtherMutex(m)] = Free]
    /\ ctor_pc' = [ctor_pc EXCEPT ![m] = "probe_acq"]
    /\ UNCHANGED <<mstate, mdev, ctor_err, probe_resp, spi_mutex, spi_lock,
                   mykonos_ctrl, acq, trace>>
    /\ UNCHANGED thrVars
    /\ prim_st' = [prim_st EXCEPT ![OtherMutex(m)] = "alive"]

\* a constructor that locks _spi_mutex itself before it constructs the
\* controller
CtrlMake_Locked(m) ==
    /\ mstate[m] = "Initializing"
    /\ ctor_pc[m] = "ctrl_make"
    /\ owner' = [owner EXCEPT ![spi_mutex[m]] = CtorThread(m)]
    /\ ctrl_new' = [ctrl_new EXCEPT ![m] = spi_mutex[m]]
    /\ ctor_pc' = [ctor_pc EXCEPT ![m] = "probe_acq"]
    /\ UNCHANGED <<mstate, mdev, ctor_err, probe_resp, spi_mutex, spi_lock,
                   mykonos_ctrl, acq, trace>>
    /\ UNCHANGED thrVars
    /\ UNCHANGED prim_st

\* ad937x_ctrl::make(_spi_mutex, <iface>, gain_pins_t()): the controller is
\* bound to the manager's primitive
CtrlMake(m) ==
    /\ mstate[m] = "Initializing"
    /\ ctor_pc[m] = "ctrl_make"
    /\ ctrl_new' = [ctrl_new EXCEPT ![m] = spi_mutex[m]]
    /\ ctor_pc' = [ctor_pc EXCEPT ![m] = "probe_acq"]
    /\ UNCHANGED <<mstate, mdev, ctor_err, probe_resp, spi_mutex, spi_lock,
                   mykonos_ctrl, owner, acq, trace>>
    /\ UNCHANGED thrVars
    /\ UNCHANGED prim_st

\* chip initialisation inside ad937x_ctrl::make takes a guard on the shared
\* primitive before it touches the bus
CtrlProbeAcquire(m) ==
    /\ mstate[m] = "Initializing"
    /\ ctor_pc[m] = "probe_acq"
    /\ owner[ctrl_new[m]] = Free
    /\ owner' = [owner EXCEPT ![ctrl_new[m]] = CtorThread(m)]
    /\ acq' = [acq EXCEPT ![m] = Append(@, ProbeOp)]
    /\ ctor_pc' = [ctor_pc EXCEPT ![m] = "probe"]
    /\ UNCHANGED <<mstate, mdev, ctor_err, probe_resp, spi_mutex, spi_lock,
                   mykonos_ctrl, ctrl_new, trace>>
    /\ UNCHANGED thrVars
    /\ UNCHANGED prim_st

\* the identity probe: one bus transaction
CtrlProbe(m, resp) ==
    /\ mstate[m] = "Initializing"
    /\ ctor_pc[m] = "probe"
    /\ trace' = [trace EXCEPT ![m] = Append(@, ProbeOp)]
    /\ probe_resp' = [probe_resp EXCEPT ![m] = resp]
    /\ ctor_pc' = [ctor_pc EXCEPT ![m] = "probe_done"]
    /\ UNCHANGED <<mstate, mdev, ctor_err, spi_mutex, spi_lock, mykonos_ctrl,
                   ctrl_new, owner, acq>>
    /\ UNCHANGED thrVars
    /\ UNCHANGED prim_st

\* a failed controller construction that is swallowed: the constructor goes
\* on with an empty _mykonos_ctrl
CtrlMakeReturn_Swallow(m) ==
    /\ mstate[m] = "Initializing"
    /\ ctor_pc[m] = "probe_done"
    /\ owner' = [owner EXCEPT ![ctrl_new[m]] = Free]
    /\ IF probe_resp[m] = "ok"
         THEN /\ mykonos_ctrl' = [mykonos_ctrl EXCEPT ![m] = ctrl_new[m]]
              /\ UNCHANGED ctor_err
         ELSE /\ mykonos_ctrl' = [mykonos_ctrl EXCEPT ![m] = Null]
              /\ ctor_err' = [ctor_err EXCEPT ![m] = probe_resp[m]]
    /\ ctrl_new' = [ctrl_new EXCEPT ![m] = Null]
    /\ ctor_pc' = [ctor_pc EXCEPT ![m] = "body"]
    /\ UNCHANGED <<mstate, spi_mutex, spi_lock>>
    /\ probe_resp' = [probe_resp EXCEPT ![m] = "none"]
    /\ UNCHANGED <<mdev, acq, trace>>
    /\ UNCHANGED thrVars
    /\ Reap

\* ad937x_ctrl::make returns: the guard is released; on success the result
\* initialises _mykonos_ctrl, otherwise the exception propagates out of the
\* mem-initializer (the constructor has no handler)
CtrlMakeReturn(m) ==
    /\ mstate[m] = "Initializing"
    /\ ctor_pc[m] = "probe_done"
    /\ owner' = [owner EXCEPT ![ctrl_new[m]] = Free]
    /\ IF probe_resp[m] = "ok"
         THEN /\ mykonos_ctrl' = [mykonos_ctrl EXCEPT ![m] = ctrl_new[m]]
              /\ ctrl_new' = [ctrl_new EXCEPT ![m] = Null]
              /\ ctor_pc' = [ctor_pc EXCEPT ![m] = "body"]
              /\ UNCHANGED <<mstate, ctor_err, spi_mutex, spi_lock>>
         ELSE CtorThrow(m, probe_resp[m])
    /\ probe_resp' = [probe_resp EXCEPT ![m] = "none"]
    /\ UNCHANGED <<mdev, acq, trace>>
    /\ UNCHANGED thrVars
    /\ Reap

\* the (empty) constructor body: the object exists from here on
CtorBody(m) ==
    /\ mstate[m] = "Initializing"
    /\ ctor_pc[m] = "body"
    /\ mstate' = [mstate EXCEPT ![m] = "Ready"]
    /\ ctor_pc' = [ctor_pc EXCEPT ![m] = "none"]
    /\ UNCHANGED <<mdev, ctor_err, probe_resp, spi_mutex, spi_lock,
                   mykonos_ctrl, ctrl_new, owner, acq, trace>>
    /\ UNCHANGED thrVars
    /\ UNCHANGED prim_st

\* ---- magnesium_manager::~magnesium_manager (implicit) -------------------

\* The owner of a constructed manager destroys it.  The class declares no
\* destructor: nothing is locked or waited for.
Destroy(m) ==
    /\ mstate[m] = "Ready"
    /\ mstate' = [mstate EXCEPT ![m] = "TearingDown"]
    /\ ctor_pc' = [ctor_pc EXCEPT ![m] = "d_mykonos_ctrl"]
    /\ UNCHANGED <<mdev, ctor_err, probe_resp, spi_mutex, spi_lock,
                   mykonos_ctrl, ctrl_new, owner, acq, trace>>
    /\ UNCHANGED thrVars
    /\ UNCHANGED prim_st

\* members are destroyed in the reverse order of their initialisation:
\* first _mykonos_ctrl ...
DestroyMykonosCtrl(m) ==
    /\ mstate[m] = "TearingDown"
    /\ ctor_pc[m] = "d_mykonos_ctrl"
    /\ mykonos_ctrl' = [mykonos_ctrl EXCEPT ![m] = Null]
    /\ ctor_pc' = [ctor_pc EXCEPT ![m] = "d_spi_lock"]
    /\ UNCHANGED <<mstate, mdev, ctor_err, probe_resp, spi_mutex, spi_lock,
                   ctrl_new, owner, acq, trace>>
    /\ UNCHANGED thrVars
    /\ Reap

\* ... then _spi_lock ...
DestroySpiLock(m) ==
    /\ mstate[m] = "TearingDown"
    /\ ctor_pc[m] = "d_spi_lock"
    /\ spi_lock' = [spi_lock EXCEPT ![m] = Null]
    /\ ctor_pc' = [ctor_pc EXCEPT ![m] = "d_spi_mutex"]
    /\ UNCHANGED <<mstate, mdev, ctor_err, probe_resp, spi_mutex,
                   mykonos_ctrl, ctrl_new, owner, acq, trace>>
    /\ UNCHANGED thrVars
    /\ Reap

\* a destructor that deletes the primitive outright, whoever else owns it
DestroySpiMutex_Delete(m) ==
    /\ mstate[m] = "TearingDown"
    /\ ctor_pc[m] = "d_spi_mutex"
    /\ prim_st' = [prim_st EXCEPT ![spi_mutex[m]] = "destroyed"]
    /\ spi_mutex' = [spi_mutex EXCEPT ![m] = Null]
    /\ mstate' = [mstate EXCEPT ![m] = "Destroyed"]
    /\ ctor_pc' = [ctor_pc EXCEPT ![m] = "none"]
    /\ UNCHANGED <<mdev, ctor_err, probe_resp, spi_lock, mykonos_ctrl,
                   ctrl_new, owner, acq, trace>>
    /\ UNCHANGED thrVars

\* ... and last the manager's own reference to the primitive
DestroySpiMutex(m) ==
    /\ mstate[m] = "TearingDown"
    /\ ctor_pc[m] = "d_spi_mutex"
    /\ spi_mutex' = [spi_mutex EXCEPT ![m] = Null]
    /\ mstate' = [mstate EXCEPT ![m] = "Destroyed"]
    /\ ctor_pc' = [ctor_pc EXCEPT ![m] = "none"]
    /\ UNCHANGED <<mdev, ctor_err, probe_resp, spi_lock, mykonos_ctrl,
                   ctrl_new, owner, acq, trace>>
    /\ UNCHANGED thrVars
    /\ Reap

\* ---- callers: controller operations and the manager's lock --------------

\* the primitive behind the object a caller obtains from manager m
RoutePrim(m, r) == IF r = "ctrl" THEN mykonos_ctrl[m] ELSE spi_lock[m]

\* A caller thread starts an operation with valid arguments on the
\* controller ("ctrl") or takes the manager's lock itself, with acquire()
\* ("lock") or with try_acquire(timeout) ("try").  The objects are handed
\* out by a constructed manager only.
Invoke(t, m, r) ==
    /\ pc[t] = "idle"
    /\ mstate[m] = "Ready"
    /\ nops < MaxOps
    /\ pc' = [pc EXCEPT ![t] = "acquire"]
    /\ tm' = [tm EXCEPT ![t] = m]
    /\ route' = [route EXCEPT ![t] = r]
    /\ tprim' = [tprim EXCEPT ![t] = RoutePrim(m, r)]
    /\ nops' = nops + 1
    /\ top' = [top EXCEPT ![t] = nops + 1]
    /\ UNCHANGED <<steps, result, owner, acq, trace>>
    /\ UNCHANGED mgrVars
    /\ UNCHANGED prim_st

\* an argument check that comes only after a first bus transaction
InvokeInvalid_AfterTransaction(t, m) ==
    /\ pc[t] = "idle"
    /\ mstate[m] = "Ready"
    /\ pc' = [pc EXCEPT ![t] = "returned"]
    /\ result' = [result EXCEPT ![t] = "usage_error"]
    /\ trace' = [trace EXCEPT ![m] = Append(@, nops + 1)]
    /\ UNCHANGED <<tm, route, tprim, top, steps, nops, owner, acq>>
    /\ UNCHANGED mgrVars
    /\ UNCHANGED prim_st

\* a controller operation called with an invalid argument returns a usage
\* error before it touches the lock or the bus
InvokeInvalid(t, m) ==
    /\ pc[t] = "idle"
    /\ mstate[m] = "Ready"
    /\ pc' = [pc EXCEPT ![t] = "returned"]
    /\ result' = [result EXCEPT ![t] = "usage_error"]
    /\ UNCHANGED <<tm, route, tprim, top, steps, nops, owner, acq, trace>>
    /\ UNCHANGED mgrVars
    /\ UNCHANGED prim_st

\* acquire(): blocks until no other holder is active, then the guard is held
Acquire(t) ==
    /\ pc[t] = "acquire"
    /\ owner[tprim[t]] = Free
    /\ owner' = [owner EXCEPT ![tprim[t]] = t]
    /\ acq' = [acq EXCEPT ![tm[t]] = Append(@, top[t])]
    /\ pc' = [pc EXCEPT ![t] = "held"]
    /\ UNCHANGED <<tm, route, tprim, top, steps, result, nops, trace>>
    /\ UNCHANGED mgrVars
    /\ UNCHANGED prim_st

\* the call returns to its caller with result res; the thread-local state of
\* the operation is gone
Leave(t, res) ==
    /\ pc' = [pc EXCEPT ![t] = "returned"]
    /\ result' = [result EXCEPT ![t] = res]
    /\ tm' = [tm EXCEPT ![t] = Null]
    /\ route' = [route EXCEPT ![t] = "none"]
    /\ tprim' = [tprim EXCEPT ![t] = Null]
    /\ top' = [top EXCEPT ![t] = 0]
    /\ steps' = [steps EXCEPT ![t] = 0]

\* a try_acquire that reports failure but has pushed the holder aside
AcquireTimeout_Steal(t) ==
    /\ pc[t] = "acquire"
    /\ route[t] = "try"
    /\ owner[tprim[t]] # Free
    /\ owner' = [owner EXCEPT ![tprim[t]] = t]
    /\ Leave(t, "lock_timeout")
    /\ UNCHANGED <<nops, acq, trace>>
    /\ UNCHANGED mgrVars
    /\ Reap

\* try_acquire(timeout): the primitive stayed held for the whole timeout;
\* the caller gets a failure indication and holds nothing
AcquireTimeout(t) ==
    /\ pc[t] = "acquire"
    /\ route[t] = "try"
    /\ owner[tprim[t]] # Free
    /\ Leave(t, "lock_timeout")
    /\ UNCHANGED <<owner, nops, acq, trace>>
    /\ UNCHANGED mgrVars
    /\ Reap

\* a bus transaction that could be issued while still waiting for the lock
Transact_Unguarded(t, ok) ==
    /\ pc[t] \in {"acquire", "held"}
    /\ steps[t] < OpSteps
    /\ trace' = [trace EXCEPT ![tm[t]] = Append(@, top[t])]
    /\ IF ok \/ pc[t] = "acquire"
         THEN /\ steps' = [steps EXCEPT ![t] = @ + 1]
              /\ UNCHANGED <<pc, result, tm, route, tprim, top, owner>>
         ELSE /\ owner' = [owner EXCEPT ![tprim[t]] = Free]
              /\ Leave(t, "comm_failure")
    /\ UNCHANGED <<nops, acq>>
    /\ UNCHANGED mgrVars
    /\ Reap

\* a communication failure that propagates without releasing the guard
Transact_LeakOnFailure(t, ok) ==
    /\ pc[t] = "held"
    /\ steps[t] < OpSteps
    /\ trace' = [trace EXCEPT ![tm[t]] = Append(@, top[t])]
    /\ IF ok
         THEN /\ steps' = [steps EXCEPT ![t] = @ + 1]
              /\ UNCHANGED <<pc, result, tm, route, tprim, top, owner>>
         ELSE /\ UNCHANGED owner
              /\ Leave(t, "comm_failure")
    /\ UNCHANGED <<nops, acq>>
    /\ UNCHANGED mgrVars
    /\ Reap

\* One bus transaction of the operation, inside the guard.  A communication
\* failure propagates to the caller; the guard goes out of scope on the way.
Transact(t, ok) ==
    /\ pc[t] = "held"
    /\ steps[t] < OpSteps
    /\ trace' = [trace EXCEPT ![tm[t]] = Append(@, top[t])]
    /\ IF ok
         THEN /\ steps' = [steps EXCEPT ![t] = @ + 1]
              /\ UNCHANGED <<pc, result, tm, route, tprim, top, owner>>
         ELSE /\ owner' = [owner EXCEPT ![tprim[t]] = Free]
              /\ Leave(t, "comm_failure")
    /\ UNCHANGED <<nops, acq>>
    /\ UNCHANGED mgrVars
    /\ Reap

\* an operation that returns with its guard still in place
Return_KeepGuard(t) ==
    /\ pc[t] = "held"
    /\ Leave(t, IF steps[t] = OpSteps THEN "ok" ELSE "early")
    /\ UNCHANGED <<owner, nops, acq, trace>>
    /\ UNCHANGED mgrVars
    /\ Reap

\* The operation returns without failure, after its last transaction or
\* early; the guard goes out of scope.
Return(t) ==
    /\ pc[t] = "held"
    /\ owner' = [owner EXCEPT ![tprim[t]] = Free]
    /\ Leave(t, IF steps[t] = OpSteps THEN "ok" ELSE "early")
    /\ UNCHANGED <<nops, acq, trace>>
    /\ UNCHANGED mgrVars
    /\ Reap

\* the caller has looked at the result and is ready for its next call
Resume(t) ==
    /\ pc[t] = "returned"
    /\ pc' = [pc EXCEPT ![t] = "idle"]
    /\ result' = [result EXCEPT ![t] = "none"]
    /\ UNCHANGED <<tm, route, tprim, top, steps, nops, owner, acq, trace>>
    /\ UNCHANGED mgrVars
    /\ UNCHANGED prim_st

\* ---- specification -------------------------------------------------------

Next ==
    \/ \E m \in Managers, d \in Devs : Construct(m, d)
    \/ \E m \in Managers : InitSpiMutex(m)
    \/ \E m \in Managers : InitSpiLock(m)
    \/ \E m \in Managers, ok \in BOOLEAN : MakeIface(m, ok)
    \/ \E m \in Managers : CtrlMake(m)
    \/ \E m \in Managers : CtrlProbeAcquire(m)
    \/ \E m \in Managers, resp \in {"ok", "bad_id", "absent"} : CtrlProbe(m, resp)
    \/ \E m \in Managers : CtrlMakeReturn(m)
    \/ \E m \in Managers : CtorBody(m)
    \/ \E m \in Managers : Destroy(m)
    \/ \E m \in Managers : DestroyMykonosCtrl(m)
    \/ \E m \in Managers : DestroySpiLock(m)
    \/ \E m \in Managers : DestroySpiMutex(m)
    \/ \E t \in Threads, m \in Managers, r \in {"ctrl", "lock", "try"} : Invoke(t, m, r)
    \/ \E t \in Threads, m \in Managers : InvokeInvalid(t, m)
    \/ \E t \in Threads : Acquire(t)
    \/ \E t \in Threads : AcquireTimeout(t)
    \/ \E t \in Threads, ok \in BOOLEAN : Transact(t, ok)
    \/ \E t \in Threads : Return(t)
    \/ \E t \in Threads : Resume(t)

Spec == Init /\ [][Next]_vars

\* one step of the thread that runs the constructor of manager m
CtorStep(m) ==
    \/ InitSpiMutex(m)
    \/ InitSpiLock(m)
    \/ \E ok \in BOOLEAN : MakeIface(m, ok)
    \/ CtrlMake(m)
    \/ CtrlProbeAcquire(m)
    \/ \E resp \in {"ok", "bad_id", "absent"} : CtrlProbe(m, resp)
    \/ CtrlMakeReturn(m)
    \/ CtorBody(m)

\* Scheduling: a thread that holds a guard goes on until its operation
\* returns, a thread blocked in acquire() is not passed over forever when
\* the primitive becomes free again and again, and the thread inside a
\* constructor runs on.
Fairness ==
    /\ \A t \in Threads :
          /\ WF_vars(Return(t))
          /\ SF_vars(Acquire(t))
    /\ \A m \in Managers : WF_vars(CtorStep(m))

\* The runs in which every manager is constructed for bus device 1: the
\* device path is only recorded (mdev) and plays no part in any guard, so
\* contention is the same on every device.
NextLive ==
    \/ \E m \in Managers : Construct(m, 1)
    \/ \E m \in Managers : InitSpiMutex(m)
    \/ \E m \in Managers : InitSpiLock(m)
    \/ \E m \in Managers, ok \in BOOLEAN : MakeIface(m, ok)
    \/ \E m \in Managers : CtrlMake(m)
    \/ \E m \in Managers : CtrlProbeAcquire(m)
    \/ \E m \in Managers, resp \in {"ok", "bad_id", "absent"} : CtrlProbe(m, resp)
    \/ \E m \in Managers : CtrlMakeReturn(m)
    \/ \E m \in Managers : CtorBody(m)
    \/ \E m \in Managers : Destroy(m)
    \/ \E m \in Managers : DestroyMykonosCtrl(m)
    \/ \E m \in Managers : DestroySpiLock(m)
    \/ \E m \in Managers : DestroySpiMutex(m)
    \/ \E t \in Threads, m \in Managers, r \in {"ctrl", "lock", "try"} : Invoke(t, m, r)
    \/ \E t \in Threads, m \in Managers : InvokeInvalid(t, m)
    \/ \E t \in Threads : Acquire(t)
    \/ \E t \in Threads : AcquireTimeout(t)
    \/ \E t \in Threads, ok \in BOOLEAN : Transact(t, ok)
    \/ \E t \in Threads : Return(t)
    \/ \E t \in Threads : Resume(t)

LiveSpec == Init /\ [][NextLive]_vars /\ Fairness

\* ---- properties ----------------------------------------------------------

\* the constructor of manager m is inside the guard of the identity probe
CtorInGuard(m) == ctor_pc[m] \in {"probe", "probe_done"}

\* the holders that are inside a guard taken through an object of manager m
GuardsOn(m) ==
    {t \in Threads : pc[t] = "held" /\ tm[t] = m}
        \cup (IF CtorInGuard(m) THEN {CtorThread(m)} ELSE {})

\* position of operation x in the acquisition order a
Pos(a, x) == CHOOSE j \in 1..Len(a) : a[j] = x

\* the magnesium_manager object m exists (constructed, not yet destroyed)
Live(m) == mstate[m] \in {"Ready", "TearingDown"}

\* C1: among all threads that operate on the controller or the lock of one
\* manager, at most one is inside a guard at any time, so no two bus
\* transactions of that manager overlap.
C1_MutualExclusion ==
    \A m \in Managers : Cardinality(GuardsOn(m)) <= 1

\* C1 witness: one thread is inside a controller operation's guard while
\* another thread's controller operation on the same manager waits.
C1_Witness ==
    \E t1, t2 \in Threads :
        /\ t1 # t2
        /\ pc[t1] = "held" /\ route[t1] = "ctrl"
        /\ pc[t2] = "acquire" /\ route[t2] = "ctrl"
        /\ tm[t1] = tm[t2]

\* C2: once a manager is constructed, _spi_lock and _mykonos_ctrl are bound
\* to the very primitive its constructor created (_spi_mutex), until they
\* are destroyed; every caller working through that manager's objects is
\* guarded by that one primitive.
C2_SamePrimitive ==
    \A m \in Managers :
        /\ mstate[m] = "Ready" =>
              /\ spi_mutex[m] = NewMutex(m)
              /\ spi_lock[m] = spi_mutex[m]
              /\ mykonos_ctrl[m] = spi_mutex[m]
        /\ mstate[m] = "TearingDown" =>
              /\ spi_lock[m] \in {Null, NewMutex(m)}
              /\ mykonos_ctrl[m] \in {Null, NewMutex(m)}
        /\ \A t \in Threads : tm[t] = m => tprim[t] = NewMutex(m)

\* C2 witness: a constructed manager whose controller and whose lock are
\* both in use by callers.
C2_Witness ==
    \E m \in Managers, t1, t2 \in Threads :
        /\ mstate[m] = "Ready"
        /\ tm[t1] = m /\ route[t1] = "ctrl"
        /\ tm[t2] = m /\ route[t2] = "lock"

\* C3: an acquire through any lock instance of a manager completes only in
\* a state where no guard is held through any instance of that manager,
\* whether the manager's _spi_lock or the one inside the chip controller.
C3_Interchangeable ==
    [][\A t \in Threads :
          (pc[t] = "acquire" /\ pc'[t] = "held") => GuardsOn(tm[t]) = {}]_vars

\* C3 witness: a guard is held through the manager's _spi_lock while a
\* controller operation on the same manager waits to acquire.
C3_Witness ==
    \E t1, t2 \in Threads :
        /\ pc[t1] = "held" /\ route[t1] = "lock"
        /\ pc[t2] = "acquire" /\ route[t2] = "ctrl"
        /\ tm[t1] = tm[t2]

\* C4: a thread that is not inside an operation (it has not called, or its
\* call has returned normally, early or with a communication failure) owns
\* no primitive.
C4_ReleasedOnReturn ==
    \A t \in Threads :
        pc[t] \in {"idle", "returned"} => \A p \in PrimIds : owner[p] # t

\* C4 witness: an operation has returned a communication failure and
\* another thread's later operation on the same manager holds the guard and
\* has done a transaction.
C4_Witness ==
    \E t1, t2 \in Threads :
        /\ pc[t1] = "returned" /\ result[t1] = "comm_failure"
        /\ pc[t2] = "held" /\ steps[t2] > 0
        /\ nops = 2
        /\ Len(acq[tm[t2]]) = 3

\* C5: whoever has done, or is about to do, a bus transaction of an
\* operation in progress is the owner of the primitive that guards it.
C5_TransactUnderGuard ==
    /\ \A t \in Threads :
          (pc[t] \in {"acquire", "held"} /\ steps[t] > 0) => owner[tprim[t]] = t
    /\ \A t \in Threads : pc[t] = "held" => owner[tprim[t]] = t
    /\ \A m \in Managers : CtorInGuard(m) => owner[ctrl_new[m]] = CtorThread(m)

\* C5 witness: a controller operation is between two of its transactions
\* while another thread waits for the same primitive.
C5_Witness ==
    \E t1, t2 \in Threads :
        /\ pc[t1] = "held" /\ route[t1] = "ctrl" /\ steps[t1] = 1
        /\ pc[t2] = "acquire" /\ tprim[t2] = tprim[t1]

\* C6: a manager whose construction failed is in the Failed state, holds no
\* member and no controller, complete or partial, and no caller has ever
\* been given one of its objects.
C6_FailedInit ==
    \A m \in Managers :
        /\ ctor_err[m] # "none" => mstate[m] = "Failed"
        /\ mstate[m] = "Failed" =>
              /\ mykonos_ctrl[m] = Null /\ ctrl_new[m] = Null
              /\ spi_lock[m] = Null /\ spi_mutex[m] = Null
              /\ \A t \in Threads : tm[t] # m
              /\ \A i \in 1..Len(acq[m]) : acq[m][i] = ProbeOp

\* C6 witness: a manager failed because the identity probe of the chip
\* returned an unexpected value.
C6_Witness ==
    \E m \in Managers :
        mstate[m] = "Failed" /\ ctor_err[m] = "bad_id" /\ trace[m] = <<ProbeOp>>

\* the transitions of a manager's lifecycle
Lifecycle ==
    { <<"Uninitialized", "Initializing">>, <<"Initializing", "Ready">>,
      <<"Initializing", "Failed">>, <<"Ready", "TearingDown">>,
      <<"TearingDown", "Destroyed">> }

\* C7: a manager's state changes only along Uninitialized -> Initializing
\* -> Ready -> TearingDown -> Destroyed or Initializing -> Failed, and a
\* caller starts an operation only on a manager that is Ready.
C7_Lifecycle ==
    [][/\ \A m \in Managers :
            mstate'[m] # mstate[m] => <<mstate[m], mstate'[m]>> \in Lifecycle
       /\ \A t \in Threads :
            (pc[t] = "idle" /\ pc'[t] = "acquire") => mstate[tm'[t]] = "Ready"
       /\ \A t \in Threads :
            (pc[t] = "idle" /\ pc'[t] = "returned") =>
                \E m \in Managers : mstate[m] = "Ready"]_vars

\* C7 witness: one manager has gone through its whole life, with bus
\* transactions of callers, and another one has failed.
C7_Witness ==
    \E m1, m2 \in Managers :
        /\ mstate[m1] = "Destroyed" /\ Len(trace[m1]) > 1
        /\ mstate[m2] = "Failed"

\* a member of manager m is destroyed in this step
TeardownStep(m) ==
    /\ ctor_pc[m] \in {"d_mykonos_ctrl", "d_spi_lock", "d_spi_mutex"}
    /\ ctor_pc'[m] # ctor_pc[m]

\* C8: in teardown the chip controller is destroyed before the manager's
\* primitive is released, and no member is destroyed in a state where a
\* guard on the primitive is held.
C8_OrderlyTeardown ==
    [][\A m \in Managers :
          TeardownStep(m) =>
              /\ GuardsOn(m) = {}
              /\ spi_mutex'[m] = Null => mykonos_ctrl[m] = Null]_vars

\* C9: no two live managers were constructed for the same bus device.
C9_OneManagerPerBoard ==
    \A m1, m2 \in Managers :
        (m1 # m2 /\ Live(m1) /\ Live(m2)) => mdev[m1] # mdev[m2]

\* C10: the transactions at a manager's bus handle are ordered by the
\* order in which their operations acquired the lock, and the transactions
\* of one operation are contiguous.
C10_TraceOrder ==
    \A m \in Managers :
        /\ \A i \in 1..Len(trace[m]) :
              \E j \in 1..Len(acq[m]) : acq[m][j] = trace[m][i]
        /\ \A i, j \in 1..Len(trace[m]) :
              i < j => Pos(acq[m], trace[m][i]) <= Pos(acq[m], trace[m][j])
        /\ \A i, j, k \in 1..Len(trace[m]) :
              (i < j /\ j < k /\ trace[m][i] = trace[m][k]) =>
                  trace[m][j] = trace[m][i]

\* C10 witness: after the probe, two two-step operations of callers appear
\* one after the other at the bus handle of one manager.
C10_Witness ==
    \E m \in Managers :
        /\ Len(trace[m]) = 5
        /\ trace[m][2] = trace[m][3]
        /\ trace[m][4] = trace[m][5]
        /\ trace[m][2] # trace[m][4]

\* C11: a call that returns a usage error leaves the bus trace, the
\* acquisition order, every primitive and every manager and controller
\* as they were, and the caller is in no operation.
C11_UsageErrorNoEffect ==
    [][\A t \in Threads :
          (pc[t] = "idle" /\ result'[t] = "usage_error") =>
              /\ trace' = trace /\ acq' = acq /\ owner' = owner
              /\ mgrVars' = mgrVars
              /\ <<tm, route, tprim, top, steps, nops>>' =
                     <<tm, route, tprim, top, steps, nops>>]_vars

\* C11 witness: a usage error was returned while another thread was in the
\* middle of an operation on a manager.
C11_Witness ==
    \E t1, t2 \in Threads :
        /\ pc[t1] = "returned" /\ result[t1] = "usage_error"
        /\ pc[t2] = "held" /\ steps[t2] = 1

\* C12: an acquisition attempt that fails changes no primitive and leaves
\* the caller holding nothing; one that succeeds takes a free primitive,
\* makes the caller its owner and the only holder of a guard on that
\* manager, and touches no other primitive.
C12_AllOrNothing ==
    [][\A t \in Threads :
          /\ (pc[t] = "acquire" /\ pc'[t] = "returned") =>
                /\ owner' = owner
                /\ \A p \in PrimIds : owner'[p] # t
          /\ (pc[t] = "acquire" /\ pc'[t] = "held") =>
                /\ owner[tprim[t]] = Free
                /\ owner'[tprim[t]] = t
                /\ \A p \in PrimIds \ {tprim[t]} : owner'[p] = owner[p]
                /\ GuardsOn(tm[t])' = {t}]_vars

\* C12 witness: a try_acquire has timed out while the holder it ran into
\* is still the holder.
C12_Witness ==
    \E t1, t2 \in Threads :
        /\ pc[t1] = "returned" /\ result[t1] = "lock_timeout"
        /\ pc[t2] = "held" /\ owner[tprim[t2]] = t2
        /\ nops = 2
        /\ Len(acq[tm[t2]]) = 2

\* the manager through whose object holder h works
HolderManager(h) == IF h \in Threads THEN tm[h] ELSE 0 - h

\* C13: managers constructed for different bus devices have different
\* primitives, and an acquire is kept waiting only by a holder that works
\* on the same bus device, never by a guard held on another bus.
C13_IndependentBuses ==
    /\ \A m1, m2 \in Managers :
          (mdev[m1] # mdev[m2] /\ spi_mutex[m1] # Null /\ spi_mutex[m2] # Null)
              => spi_mutex[m1] # spi_mutex[m2]
    /\ \A t \in Threads :
          (pc[t] = "acquire" /\ owner[tprim[t]] # Free) =>
              mdev[HolderManager(owner[tprim[t]])] = mdev[tm[t]]

\* C13 witness: two threads are inside transactions on managers of two
\* different bus devices at the same time.
C13_Witness ==
    \E t1, t2 \in Threads :
        /\ pc[t1] = "held" /\ steps[t1] > 0
        /\ pc[t2] = "held" /\ steps[t2] > 0
        /\ tm[t1] # tm[t2]
        /\ mdev[tm[t1]] # mdev[tm[t2]]

\* C14: a manager whose construction has just finished is in one and the
\* same initial state, whatever happened before: its lock and controller
\* are bound to its own primitive, that primitive is alive, unheld and has
\* no waiters or users, no other manager (torn down or not) has anything
\* bound to it, and its bus has seen the probe and nothing else.
C14_FreshAfterTeardown ==
    \A m \in Managers :
        ctor_pc[m] = "body" =>
            /\ spi_mutex[m] # Null
            /\ spi_lock[m] = spi_mutex[m]
            /\ mykonos_ctrl[m] = spi_mutex[m]
            /\ ctrl_new[m] = Null
            /\ prim_st[spi_mutex[m]] = "alive"
            /\ owner[spi_mutex[m]] = Free
            /\ \A t \in Threads : tprim[t] # spi_mutex[m] /\ tm[t] # m
            /\ \A k \in Managers \ {m} :
                   spi_mutex[m] \notin
                       {spi_mutex[k], spi_lock[k], mykonos_ctrl[k], ctrl_new[k]}
            /\ acq[m] = <<ProbeOp>>
            /\ trace[m] = <<ProbeOp>>
            /\ ctor_err[m] = "none" /\ probe_resp[m] = "none"

\* C14 witness: a manager has just been constructed for the bus device of
\* an earlier manager that ran caller operations and was torn down.
C14_Witness ==
    \E m1, m2 \in Managers :
        /\ m1 # m2
        /\ mstate[m1] = "Destroyed" /\ Len(trace[m1]) > 1
        /\ ctor_pc[m2] = "body"
        /\ mdev[m2] = mdev[m1]

\* C15: whatever refers to a primitive (a manager's _spi_mutex, a lock
\* instance, a controller complete or under construction, a caller in an
\* operation) refers to one that is alive; no acquire ever meets a
\* destroyed primitive.
C15_PrimitiveOutlivesHolders ==
    /\ \A m \in Managers :
          /\ spi_mutex[m] # Null => prim_st[spi_mutex[m]] = "alive"
          /\ spi_lock[m] # Null => prim_st[spi_lock[m]] = "alive"
          /\ mykonos_ctrl[m] # Null => prim_st[mykonos_ctrl[m]] = "alive"
          /\ ctrl_new[m] # Null => prim_st[ctrl_new[m]] = "alive"
    /\ \A t \in Threads :
          pc[t] \in {"acquire", "held"} =>
              (tprim[t] # Null /\ prim_st[tprim[t]] = "alive")

\* C15 witness: the manager is destroyed while a caller is still inside an
\* operation on its controller; the primitive is alive for that caller.
C15_Witness ==
    \E t \in Threads :
        /\ pc[t] = "held" /\ route[t] = "ctrl"
        /\ mstate[tm[t]] = "Destroyed"
        /\ prim_st[tprim[t]] = "alive"

\* C17: while the constructor of a manager is inside the identity probe of
\* the controller it constructs, it owns the primitive the controller is
\* bound to, and no caller is inside a guarded operation of a controller on
\* the same bus device.
C17_ProbeExclusive ==
    \A m \in Managers :
        CtorInGuard(m) =>
            /\ owner[ctrl_new[m]] = CtorThread(m)
            /\ \A t \in Threads :
                   (pc[t] = "held" /\ route[t] = "ctrl") =>
                       mdev[tm[t]] # mdev[m]

C18_CtorHoldsNoGuard ==
    /\ [](\A m \in Managers :
            /\ ctor_pc[m] \in {"spi_lock", "iface", "ctrl_make", "probe_acq", "body"}
                  => owner[spi_mutex[m]] = Free
            /\ ~CtorInGuard(m) => \A p \in PrimIds : owner[p] # CtorThread(m))
    /\ \A m \in Managers :
          (mstate[m] = "Initializing") ~> (mstate[m] \in {"Ready", "Failed"})

\* C18 witness: the controller under construction has taken the guard on
\* the manager's primitive for its identity probe.
C18_Witness ==
    \E m \in Managers :
        /\ ctor_pc[m] = "probe"
        /\ spi_lock[m] = spi_mutex[m] /\ ctrl_new[m] = spi_mutex[m]
        /\ owner[spi_mutex[m]] = CtorThread(m)

\* the primitive of manager m exists
HasPrimitive(m) == spi_mutex[m] # Null /\ prim_st[spi_mutex[m]] = "alive"

\* C19: in every state of a construction after its first step the
\* primitive exists; from the step that makes the lock instance on, the
\* lock instance is bound to it, and so is the controller from the step
\* that makes it; a lock instance or controller never appears in a state
\* without the primitive.
C19_PrimitiveFirst ==
    \A m \in Managers :
        mstate[m] = "Initializing" =>
            /\ ctor_pc[m] # "spi_mutex" => HasPrimitive(m)
            /\ ctor_pc[m] \notin {"spi_mutex", "spi_lock"}
                  => spi_lock[m] = spi_mutex[m]
            /\ ctor_pc[m] \in {"probe_acq", "probe", "probe_done"}
                  => ctrl_new[m] = spi_mutex[m]
            /\ ctor_pc[m] = "body" => mykonos_ctrl[m] = spi_mutex[m]
            /\ (spi_lock[m] # Null \/ ctrl_new[m] # Null \/ mykonos_ctrl[m] # Null)
                  => HasPrimitive(m)

\* C19 witness: the lock instance has been made on the primitive and the
\* controller is still to be made.
C19_Witness ==
    \E m \in Managers :
        /\ ctor_pc[m] = "ctrl_make"
        /\ HasPrimitive(m)
        /\ spi_lock[m] = spi_mutex[m]
        /\ ctrl_new[m] = Null /\ mykonos_ctrl[m] = Null

====
